---------------------------- MODULE Spec2Model ----------------------------
(***************************************************************************)
(* The history store of django-mem0-client: the MemoryHistory table        *)
(* (mem0client/models.py) and the three operations DjangoMemoryManager     *)
(* (mem0client/memory_manager.py) offers on it: add_history, get_history   *)
(* and reset.                                                              *)
(*                                                                         *)
(* Spec     one caller; every call runs to completion before the next.     *)
(* SpecLen  one caller; add_history with strings at and over column sizes. *)
(* SpecConc several callers; a call is split at its database statement.    *)
(***************************************************************************)
EXTENDS Integers, Sequences, FiniteSets, TLC

\* The table holds at most MaxRows rows (the real table is unbounded).
MaxRows == 2

\* Python's None, and a value that is present.  An Optional[T] argument or a
\* nullable column is None or Some(v).
None == <<>>
Some(v) == <<v>>

\* ------------------------------------------------------------------------
\* Inputs of add_history
\* ------------------------------------------------------------------------

MemoryIds == {"m1", "m2"}

\* created_at / updated_at the caller may pass: omitted (None), or one of
\* the instants 1 and 2.  add_history hands the value to the DateTimeField
\* untouched; a timestamp stands here for the instant the column stores and
\* ORDER BY compares.
TimeArgs ==
  { [created_at |-> None,    updated_at |-> None],
    [created_at |-> None,    updated_at |-> Some(1)],
    [created_at |-> Some(1), updated_at |-> Some(1)],
    [created_at |-> Some(1), updated_at |-> Some(2)],
    [created_at |-> Some(2), updated_at |-> Some(1)] }

\* What a caller records: a creation with every keyword argument left at
\* its default, and an update by an actor, flagged is_deleted=1.
Mutations ==
  { [old_memory |-> None, new_memory |-> Some("fact A"), event |-> "ADD",
     is_deleted |-> 0, actor_id |-> None, role |-> None],
    [old_memory |-> Some("fact A"), new_memory |-> Some("fact A revised"),
     event |-> "UPDATE", is_deleted |-> 1, actor_id |-> Some("u1"),
     role |-> Some("admin")] }

AddArgs ==
  { [memory_id |-> m] @@ mu @@ t : m \in MemoryIds, mu \in Mutations, t \in TimeArgs }

\* ------------------------------------------------------------------------
\* models.py: MemoryHistory
\* ------------------------------------------------------------------------

\* id = UUIDField(primary_key=True, default=uuid.uuid4): a new instance
\* draws its id at random; any value of the space can come out.
UUIDs == 1..MaxRows
uuid4 == UUIDs

\* bool(is_deleted)
bool(n) == n # 0

\* Mutant of MemoryHistory: old_memory and new_memory passed the wrong way
\* round.
MemoryHistory_swapped(args, u) ==
  [ id         |-> u,
    memory_id  |-> args.memory_id,
    old_memory |-> args.new_memory,
    new_memory |-> args.old_memory,
    event      |-> args.event,
    created_at |-> args.created_at,
    updated_at |-> args.updated_at,
    is_deleted |-> args.is_deleted # 0,
    actor_id   |-> args.actor_id,
    role       |-> args.role ]

\* MemoryHistory(**kwargs) as add_history builds it: the id is the default's
\* draw u, every other field is the argument (is_deleted through bool()).
MemoryHistory(args, u) ==
  [ id         |-> u,
    memory_id  |-> args.memory_id,
    old_memory |-> args.old_memory,
    new_memory |-> args.new_memory,
    event      |-> args.event,
    created_at |-> args.created_at,
    updated_at |-> args.updated_at,
    is_deleted |-> bool(args.is_deleted),
    actor_id   |-> args.actor_id,
    role       |-> args.role ]

\* CharField(max_length=...) of memory_id, event, actor_id and role.
memory_id_max_length == 36
event_max_length == 10
actor_id_max_length == 36
role_max_length == 50

\* A CharField value is longer than its column.
TooLong(obj) ==
  \/ Len(obj.memory_id) > memory_id_max_length
  \/ Len(obj.event) > event_max_length
  \/ obj.actor_id # None /\ Len(obj.actor_id[1]) > actor_id_max_length
  \/ obj.role # None /\ Len(obj.role[1]) > role_max_length

\* objects.create() saves without full_clean(): max_length is not checked
\* in Python, it only sizes the varchar column.  Whether the INSERT of a
\* longer value is refused (DataError) is up to the database: PostgreSQL
\* refuses it, SQLite does not look at the declared size and stores the
\* value.  enforced says which kind answers this INSERT.
DataError(obj, enforced) == enforced /\ TooLong(obj)

\* Mutant of IntegrityError: id is not the primary key, nothing is refused.
IntegrityError_never(tbl, row) == FALSE

\* The primary key: an INSERT whose id is already in the table is refused
\* (IntegrityError), objects.create() inserts and never updates.
IntegrityError(tbl, row) == \E r \in tbl : r.id = row.id

\* Mutant of Insert: an upsert keyed on memory_id, the new row replaces the
\* rows of its memory.
Insert_upsert(tbl, row) == { r \in tbl : r.memory_id # row.memory_id } \cup {row}

\* Mutant of Insert: the INSERT writes the row without new_memory, which a
\* second statement would fill in.
Insert_partial(tbl, row) == tbl \cup {[row EXCEPT !.new_memory = None]}

\* The INSERT of objects.create(): one new row, nothing else touched.
Insert(tbl, row) == tbl \cup {row}

\* Mutant of DeleteAll: only the rows not flagged is_deleted are removed.
DeleteAll_unflagged(tbl) == { r \in tbl : r.is_deleted }

\* objects.all().delete(): one DELETE over the whole table.
DeleteAll(tbl) == {}

\* Mutant of delete: the rows are deleted one statement at a time, outside a
\* transaction; a failure on the way leaves the rows deleted so far deleted.
delete_row_by_row(tbl) ==
  {[ok |-> TRUE, rows |-> {}]} \cup { [ok |-> FALSE, rows |-> S] : S \in SUBSET tbl }

\* How objects.all().delete() can end: the DELETE goes through, or the
\* database raises (connection lost, write failure), the statement's
\* transaction is rolled back and the table is as it was.  reset() catches
\* nothing, so the error reaches the caller.
delete(tbl) ==
  { [ok |-> TRUE, rows |-> DeleteAll(tbl)], [ok |-> FALSE, rows |-> tbl] }

\* ------------------------------------------------------------------------
\* memory_manager.py: get_history
\* ------------------------------------------------------------------------

\* Mutant of filter: rows flagged is_deleted are left out.
filter_live(tbl, memory_id) == { r \in tbl : r.memory_id = memory_id /\ ~r.is_deleted }

\* objects.filter(memory_id=memory_id)
filter(tbl, memory_id) == { r \in tbl : r.memory_id = memory_id }

\* Where a NULL sorts under ORDER BY ... ASC depends on the database: before
\* every value or after every value.
NullRank(nullsFirst) == IF nullsFirst THEN 0 ELSE 1000000
Rank(t, nullsFirst) == IF t = None THEN NullRank(nullsFirst) ELSE t[1]

\* a sorts strictly before b under ORDER BY created_at, updated_at
Before(a, b, nullsFirst) ==
  \/ Rank(a.created_at, nullsFirst) < Rank(b.created_at, nullsFirst)
  \/ /\ Rank(a.created_at, nullsFirst) = Rank(b.created_at, nullsFirst)
     /\ Rank(a.updated_at, nullsFirst) < Rank(b.updated_at, nullsFirst)

Perms(S) ==
  { s \in [1..Cardinality(S) -> S] : \A i, j \in 1..Cardinality(S) : i # j => s[i] # s[j] }

\* Mutant of order_by: .order_by('created_at') alone.
order_by_created_at(S) ==
  { s \in Perms(S) : \E nullsFirst \in BOOLEAN :
      \A i, j \in 1..Cardinality(S) : i < j =>
        ~(Rank(s[j].created_at, nullsFirst) < Rank(s[i].created_at, nullsFirst)) }

\* .order_by('created_at', 'updated_at'): every order of the rows in which
\* no row comes after one it sorts strictly before.  Rows equal on both
\* keys come in whatever order the database produces.
order_by(S) ==
  { s \in Perms(S) : \E nullsFirst \in BOOLEAN :
      \A i, j \in 1..Cardinality(S) : i < j => ~Before(s[j], s[i], nullsFirst) }

\* str(entry.id)
str(u) == ToString(u)

\* Mutant of history_dict: keys whose value is None are left out ("role"
\* here), the omit-empty shape.
history_dict_sparse(entry) ==
  LET full == [ id         |-> ToString(entry.id),
                memory_id  |-> entry.memory_id,
                old_memory |-> entry.old_memory,
                new_memory |-> entry.new_memory,
                event      |-> entry.event,
                created_at |-> entry.created_at,
                updated_at |-> entry.updated_at,
                is_deleted |-> entry.is_deleted,
                actor_id   |-> entry.actor_id,
                role       |-> entry.role ]
  IN IF entry.role = None
       THEN [ k \in (DOMAIN full) \ {"role"} |-> full[k] ]
       ELSE full

\* Mutant of history_dict: the earlier schema, which knew no actor; actor_id
\* and role are not read from the entry.
history_dict_legacy(entry) ==
  [ id         |-> ToString(entry.id),
    memory_id  |-> entry.memory_id,
    old_memory |-> entry.old_memory,
    new_memory |-> entry.new_memory,
    event      |-> entry.event,
    created_at |-> entry.created_at,
    updated_at |-> entry.updated_at,
    is_deleted |-> entry.is_deleted,
    actor_id   |-> None,
    role       |-> None ]

\* history_dict of one entry
history_dict(entry) ==
  [ id         |-> str(entry.id),
    memory_id  |-> entry.memory_id,
    old_memory |-> entry.old_memory,
    new_memory |-> entry.new_memory,
    event      |-> entry.event,
    created_at |-> entry.created_at,
    updated_at |-> entry.updated_at,
    is_deleted |-> entry.is_deleted,
    actor_id   |-> entry.actor_id,
    role       |-> entry.role ]

\* The lists get_history(memory_id) may return when its query runs on tbl.
get_history_of(tbl, memory_id) ==
  { [i \in 1..Len(s) |-> history_dict(s[i])] : s \in order_by(filter(tbl, memory_id)) }

\* ------------------------------------------------------------------------
\* State
\* ------------------------------------------------------------------------

\* The callers of SpecConc.
Procs == {"p1", "p2"}

VARIABLES
  rows,       \* the memory_history table: a set of MemoryHistory rows
  mut,        \* Spec: the last add_history or reset call (None before the first)
  ret,        \* Spec: what get_history returned if it was called since, else None
  pc,         \* SpecConc: where each caller is in its call
  frame,      \* SpecConc: the locals of each caller's call (None when idle)
  committed,  \* SpecConc: the add_history calls whose INSERT went through
              \* since the last DELETE, each with the id it drew
  removed     \* SpecConc: the ids of the rows a reset has deleted

vars == <<rows, mut, ret, pc, frame, committed, removed>>
seqVars == <<mut, ret>>
concVars == <<pc, frame, committed, removed>>

Init ==
  /\ rows = {}
  /\ mut = None
  /\ ret = None
  /\ pc = [p \in Procs |-> "idle"]
  /\ frame = [p \in Procs |-> None]
  /\ committed = {}
  /\ removed = {}

\* ------------------------------------------------------------------------
\* Spec: one caller
\* ------------------------------------------------------------------------

\* add_history(memory_id, old_memory, new_memory, event, ...)
add_history ==
  \E args \in AddArgs, u \in uuid4, enforced \in BOOLEAN :
    LET obj == MemoryHistory(args, u) IN
    /\ Cardinality(rows) < MaxRows
    /\ IF DataError(obj, enforced) \/ IntegrityError(rows, obj)
         THEN /\ rows' = rows
              /\ mut' = Some([op |-> "add_history", ok |-> FALSE])
         ELSE /\ rows' = Insert(rows, obj)
              /\ mut' = Some([op |-> "add_history", ok |-> TRUE, args |-> args,
                              id |-> u, pre |-> rows])
    /\ ret' = None
    /\ UNCHANGED concVars

\* get_history(memory_id)
get_history ==
  \E memory_id \in MemoryIds :
    \E result \in get_history_of(rows, memory_id) :
      /\ ret' = Some([memory_id |-> memory_id, result |-> result])
      /\ UNCHANGED <<rows, mut>>
      /\ UNCHANGED concVars

\* reset()
reset ==
  \E out \in delete(rows) :
    /\ rows' = out.rows
    /\ mut' = Some([op |-> "reset", ok |-> out.ok, pre |-> rows])
    /\ ret' = None
    /\ UNCHANGED concVars

Next == add_history \/ get_history \/ reset

Spec == Init /\ [][Next]_vars

\* ------------------------------------------------------------------------
\* SpecLen: one caller, as Spec, whose add_history calls carry strings at and
\* beyond the column sizes and event strings outside ADD, UPDATE, DELETE.
\* ------------------------------------------------------------------------

\* A memory_id of 36 characters (a UUID in string format) and one of 37.
Uuid36 == "123e4567-e89b-12d3-a456-426614174000"
Uuid37 == "123e4567-e89b-12d3-a456-4266141740000"
\* An event of 11 characters, and one of 7 that is none of ADD, UPDATE, DELETE.
Event11 == "INVALIDATED"
Event7 == "ARCHIVE"
\* A role of 51 characters.
Role51 == "administrator-of-the-memory-history-audit-trail-app"

SizedArgs ==
  [ memory_id  : {Uuid36, Uuid37},
    old_memory : {None},
    new_memory : {Some("fact A")},
    event      : {"ADD", Event7, Event11},
    created_at : {None},
    updated_at : {None},
    is_deleted : {0},
    actor_id   : {None, Some(Uuid36), Some(Uuid37)},
    role       : {None, Some(Role51)} ]

\* add_history(memory_id, old_memory, new_memory, event, ...) with such
\* arguments.  The exception of a refused INSERT is not caught: the call
\* ends with it (error) and the table as it was.
add_history_sized ==
  \E args \in SizedArgs, u \in uuid4, enforced \in BOOLEAN :
    LET obj == MemoryHistory(args, u) IN
    /\ Cardinality(rows) < MaxRows
    /\ IF DataError(obj, enforced) \/ IntegrityError(rows, obj)
         THEN /\ rows' = rows
              /\ mut' = Some([op |-> "add_history", ok |-> FALSE, args |-> args,
                              id |-> u, pre |-> rows,
                              error |-> IF DataError(obj, enforced)
                                          THEN "DataError" ELSE "IntegrityError"])
         ELSE /\ rows' = Insert(rows, obj)
              /\ mut' = Some([op |-> "add_history", ok |-> TRUE, args |-> args,
                              id |-> u, pre |-> rows])
    /\ ret' = None
    /\ UNCHANGED concVars

NextLen == add_history_sized \/ reset

SpecLen == Init /\ [][NextLen]_vars

\* ------------------------------------------------------------------------
\* SpecConc: several callers on one table.  A call is split where it talks
\* to the database: add_history at its INSERT, get_history at its SELECT
\* (the queryset is evaluated when the for loop starts), reset at its DELETE.
\* Each statement is atomic in the database; nothing else is.
\* ------------------------------------------------------------------------

\* The calls the callers of SpecConc make: those without timestamps.
ConcArgs ==
  { a \in AddArgs : /\ a.created_at = None /\ a.updated_at = None
                    /\ (a.memory_id = "m1" \/ a.event = "ADD") }

InFlightAdds == { q \in Procs : pc[q] = "create" }

\* add_history is called; objects.create() builds the instance, whose id is
\* drawn now.  (reset_seen is not a local of the code: it records whether a
\* reset's DELETE went through during the call, before or after its INSERT.)
add_history_call(p) ==
  \E args \in ConcArgs, u \in uuid4 :
    /\ pc[p] = "idle"
    /\ Cardinality(rows) + Cardinality(InFlightAdds) < MaxRows
    /\ pc' = [pc EXCEPT ![p] = "create"]
    /\ frame' = [frame EXCEPT ![p] = Some([args |-> args, obj |-> MemoryHistory(args, u),
                                           reset_seen |-> "no"])]
    /\ UNCHANGED <<rows, committed, removed>>
    /\ UNCHANGED seqVars

\* objects.create() saves the instance: the INSERT.  A taken id raises
\* IntegrityError, which add_history does not catch.
objects_create(p) ==
  /\ pc[p] = "create"
  /\ \E enforced \in BOOLEAN :
       LET f == frame[p][1] IN
       IF DataError(f.obj, enforced) \/ IntegrityError(rows, f.obj)
         THEN /\ pc' = [pc EXCEPT ![p] = "raised"]
              /\ UNCHANGED <<rows, committed>>
         ELSE /\ pc' = [pc EXCEPT ![p] = "created"]
              /\ rows' = Insert(rows, f.obj)
              /\ committed' = committed \cup {[id |-> f.obj.id, args |-> f.args]}
  /\ UNCHANGED <<frame, removed>>
  /\ UNCHANGED seqVars

\* logger.info(...) and add_history returns, or the exception leaves it.
add_history_return(p) ==
  /\ pc[p] \in {"created", "raised"}
  /\ pc' = [pc EXCEPT ![p] = "idle"]
  /\ frame' = [frame EXCEPT ![p] = None]
  /\ UNCHANGED <<rows, committed, removed>>
  /\ UNCHANGED seqVars

\* The rows whose add_history call has returned.
Completed == { r \in rows : \A q \in Procs : pc[q] = "created" => frame[q][1].obj # r }

\* get_history is called and builds its queryset; no query runs yet.
\* (before and intact are not locals of the code: they record the rows of
\* completed appends at the time of the call and whether a DELETE ran since.)
get_history_call(p) ==
  \E memory_id \in MemoryIds :
    /\ pc[p] = "idle"
    /\ pc' = [pc EXCEPT ![p] = "query"]
    /\ frame' = [frame EXCEPT ![p] =
                   Some([memory_id |-> memory_id,
                         before |-> filter(Completed, memory_id),
                         intact |-> TRUE])]
    /\ UNCHANGED <<rows, committed, removed>>
    /\ UNCHANGED seqVars

\* for entry in history_entries: the SELECT runs and the list is built.
get_history_query(p) ==
  /\ pc[p] = "query"
  /\ \E result \in get_history_of(rows, frame[p][1].memory_id) :
       frame' = [frame EXCEPT ![p] = Some([memory_id |-> frame[p][1].memory_id,
                                           result |-> result])]
  /\ pc' = [pc EXCEPT ![p] = "result"]
  /\ UNCHANGED <<rows, committed, removed>>
  /\ UNCHANGED seqVars

\* return result
get_history_return(p) ==
  /\ pc[p] = "result"
  /\ pc' = [pc EXCEPT ![p] = "idle"]
  /\ frame' = [frame EXCEPT ![p] = None]
  /\ UNCHANGED <<rows, committed, removed>>
  /\ UNCHANGED seqVars

\* Mutant of reset_call: reset waits until no add_history is in flight.
reset_call_exclusive(p) ==
  /\ pc[p] = "idle"
  /\ \A q \in Procs : pc[q] \notin {"create", "created"}
  /\ pc' = [pc EXCEPT ![p] = "delete"]
  /\ UNCHANGED <<rows, frame, committed, removed>>
  /\ UNCHANGED seqVars

\* reset is called.
reset_call(p) ==
  /\ pc[p] = "idle"
  /\ pc' = [pc EXCEPT ![p] = "delete"]
  /\ UNCHANGED <<rows, frame, committed, removed>>
  /\ UNCHANGED seqVars

\* objects.all().delete(): the DELETE; then logger.warning(...) and return.
objects_delete(p) ==
  /\ pc[p] = "delete"
  /\ pc' = [pc EXCEPT ![p] = "idle"]
  /\ \E out \in delete(rows) :
       /\ rows' = out.rows
       /\ IF out.ok
            THEN /\ committed' = {}
                 /\ removed' = removed \cup { r.id : r \in rows }
                 /\ frame' = [q \in Procs |->
                                IF pc[q] = "query" /\ rows # {}
                                  THEN Some([frame[q][1] EXCEPT !.intact = FALSE])
                                ELSE IF pc[q] = "create"
                                  THEN Some([frame[q][1] EXCEPT !.reset_seen = "before_insert"])
                                ELSE IF pc[q] = "created"
                                  THEN Some([frame[q][1] EXCEPT !.reset_seen = "after_insert"])
                                ELSE frame[q]]
            ELSE UNCHANGED <<committed, removed, frame>>
  /\ UNCHANGED seqVars

NextConc ==
  \E p \in Procs :
    \/ add_history_call(p)
    \/ objects_create(p)
    \/ add_history_return(p)
    \/ get_history_call(p)
    \/ get_history_query(p)
    \/ get_history_return(p)
    \/ reset_call(p)
    \/ objects_delete(p)

SpecConc == Init /\ [][NextConc]_vars

\* ------------------------------------------------------------------------
\* Properties of Spec
\* ------------------------------------------------------------------------

Range(s) == { s[i] : i \in 1..Len(s) }

\* The last completed add_history succeeded / the last mutating call was reset.
AddOk == mut # None /\ mut[1].op = "add_history" /\ mut[1].ok
WasReset == mut # None /\ mut[1].op = "reset" /\ mut[1].ok

\* get_history(m) was called after the last successful add_history, for the
\* memory_id that call appended to.
AddThenGet == AddOk /\ ret # None /\ ret[1].memory_id = mut[1].args.memory_id

\* The entry of a returned list that add_history's row became.
NewEntries(result) == { i \in 1..Len(result) : result[i].id = str(mut[1].id) }

\* C1: a successful add_history followed by get_history of the same memory_id
\* returns the entries the memory_id had before the call plus exactly one
\* new entry; that entry carries the call's memory_id, old_memory, new_memory
\* and event, is_deleted False when is_deleted was left at 0, and actor_id
\* and role None when they were omitted.
C1_AppendThenGet ==
  AddThenGet =>
    LET a == mut[1].args
        result == ret[1].result
    IN \E prev \in get_history_of(mut[1].pre, a.memory_id) :
         /\ Len(result) = Len(prev) + 1
         /\ \E k \in 1..Len(result) :
              /\ result[k] \notin Range(prev)
              /\ { result[i] : i \in (1..Len(result)) \ {k} } = Range(prev)
              /\ result[k].memory_id = a.memory_id
              /\ result[k].old_memory = a.old_memory
              /\ result[k].new_memory = a.new_memory
              /\ result[k].event = a.event
              /\ (a.is_deleted = 0 => result[k].is_deleted = FALSE)
              /\ (a.actor_id = None => result[k].actor_id = None)
              /\ (a.role = None => result[k].role = None)

\* A second event was appended with the defaults to a memory_id that had one,
\* and get_history returned both.
C1_Witness ==
  /\ AddThenGet
  /\ filter(mut[1].pre, mut[1].args.memory_id) # {}
  /\ mut[1].args.is_deleted = 0 /\ mut[1].args.actor_id = None
  /\ Len(ret[1].result) = 2

\* C2: get_history(m) returns exactly the stored rows whose memory_id is m:
\* each of them once, flagged is_deleted or not, no row of another
\* memory_id, and the empty list when m has no row.
C2_ExactlyMatching ==
  ret # None =>
    LET m == ret[1].memory_id
        result == ret[1].result
    IN /\ \A r \in rows :
            Cardinality({ i \in 1..Len(result) : result[i].id = str(r.id) })
              = (IF r.memory_id = m THEN 1 ELSE 0)
       /\ \A i \in 1..Len(result) :
            /\ result[i].memory_id = m
            /\ \E r \in rows : result[i].id = str(r.id) /\ result[i].is_deleted = r.is_deleted
       /\ ((\A r \in rows : r.memory_id # m) => result = <<>>)

\* get_history returned a row flagged is_deleted and left out a row of
\* another memory_id.
C2_Witness ==
  /\ ret # None
  /\ \E i \in 1..Len(ret[1].result) : ret[1].result[i].is_deleted
  /\ \E r \in rows : r.memory_id # ret[1].memory_id

\* get_history of a memory_id with no row, in a table that has rows, returned
\* the empty list.
C2_WitnessEmpty == ret # None /\ rows # {} /\ ret[1].result = <<>>

\* Every row of S has both timestamps and no two rows have the same pair.
DistinctTimestamps(S) ==
  /\ \A r \in S : r.created_at # None /\ r.updated_at # None
  /\ \A r, q \in S : r # q => <<r.created_at, r.updated_at>> # <<q.created_at, q.updated_at>>

\* e comes strictly before f by (created_at, updated_at); both are set.
PairLess(e, f) ==
  \/ e.created_at[1] < f.created_at[1]
  \/ e.created_at[1] = f.created_at[1] /\ e.updated_at[1] < f.updated_at[1]

\* C3: when the N rows of a memory_id carry pairwise distinct timestamps,
\* get_history returns N entries in ascending order of (created_at,
\* updated_at), and that is the only list it can return: the order the rows
\* were appended in plays no part.
C3_SortedByTimestamps ==
  \A m \in MemoryIds :
    DistinctTimestamps(filter(rows, m)) =>
      /\ Cardinality(get_history_of(rows, m)) = 1
      /\ \A result \in get_history_of(rows, m) \cup
                        (IF ret # None /\ ret[1].memory_id = m THEN {ret[1].result} ELSE {}) :
           /\ Len(result) = Cardinality(filter(rows, m))
           /\ \A i, j \in 1..Len(result) : i < j => PairLess(result[i], result[j])

\* get_history returned two entries of equal created_at, ordered by
\* updated_at, of which the later one was appended first.
C3_Witness ==
  /\ AddThenGet
  /\ DistinctTimestamps(filter(rows, ret[1].memory_id))
  /\ Len(ret[1].result) = 2
  /\ ret[1].result[1].created_at = ret[1].result[2].created_at
  /\ ret[1].result[1].id = str(mut[1].id)

\* C4: after reset the table has no row and get_history returns the empty
\* list for every memory_id, whatever was appended before.
C4_ResetClears ==
  WasReset =>
    /\ Cardinality(rows) = 0
    /\ \A m \in MemoryIds : get_history_of(rows, m) = {<<>>}
    /\ (ret # None => ret[1].result = <<>>)

\* reset ran on a table holding rows of both memory_ids, one of them flagged
\* is_deleted, and get_history was called after it.
C4_Witness ==
  /\ WasReset
  /\ \A m \in MemoryIds : filter(mut[1].pre, m) # {}
  /\ \E r \in mut[1].pre : r.is_deleted
  /\ ret # None

TenKeys ==
  { "id", "memory_id", "old_memory", "new_memory", "event", "created_at",
    "updated_at", "is_deleted", "actor_id", "role" }

\* C5: every entry get_history returns has the ten keys, and the entry of
\* an event appended without created_at, updated_at, actor_id or role has
\* None under that key.
C5_AllKeysOmittedNone ==
  /\ ret # None => \A i \in 1..Len(ret[1].result) : DOMAIN ret[1].result[i] = TenKeys
  /\ AddThenGet =>
       /\ NewEntries(ret[1].result) # {}
       /\ \A k \in NewEntries(ret[1].result) :
            LET a == mut[1].args
                e == ret[1].result[k]
            IN /\ (a.created_at = None => e.created_at = None)
               /\ (a.updated_at = None => e.updated_at = None)
               /\ (a.actor_id = None => e.actor_id = None)
               /\ (a.role = None => e.role = None)

\* An event appended with the four optional arguments omitted was returned.
C5_Witness ==
  /\ AddThenGet
  /\ mut[1].args.created_at = None /\ mut[1].args.updated_at = None
  /\ mut[1].args.actor_id = None /\ mut[1].args.role = None
  /\ NewEntries(ret[1].result) # {}

\* The scenario of C6: the memory_id held one ADD event appended without
\* timestamps, an UPDATE by actor "u1" in role "admin" was appended to it
\* without timestamps, and get_history was called for it.
C6_Scenario ==
  /\ AddThenGet
  /\ mut[1].args.event = "UPDATE"
  /\ mut[1].args.created_at = None /\ mut[1].args.updated_at = None
  /\ mut[1].args.actor_id = Some("u1") /\ mut[1].args.role = Some("admin")
  /\ Cardinality(filter(mut[1].pre, mut[1].args.memory_id)) = 1
  /\ \A r \in filter(mut[1].pre, mut[1].args.memory_id) :
       r.event = "ADD" /\ r.created_at = None /\ r.updated_at = None

\* C6 as the spec states it: the two entries come back in the order they
\* were appended, the ADD first and the UPDATE, with its actor_id and role,
\* second.
C6_AppendOrder ==
  C6_Scenario =>
    LET result == ret[1].result
    IN /\ Len(result) = 2
       /\ result[1].event = "ADD"
       /\ result[2].event = "UPDATE"
       /\ result[2].actor_id = Some("u1") /\ result[2].role = Some("admin")

\* C6 amended: get_history returns the two entries, the UPDATE carrying its
\* actor_id and role, in either order: both rows have NULL created_at and
\* updated_at, ORDER BY ties them, and both orders are possible results.
C6_BothInEitherOrder ==
  C6_Scenario =>
    LET result == ret[1].result
        m == ret[1].memory_id
    IN /\ Len(result) = 2
       /\ \E i, j \in 1..2 :
            /\ i # j
            /\ result[i].event = "ADD"
            /\ \E r \in filter(mut[1].pre, m) : result[i].id = str(r.id)
            /\ result[j].event = "UPDATE" /\ result[j].id = str(mut[1].id)
            /\ result[j].actor_id = Some("u1") /\ result[j].role = Some("admin")
       /\ \E early, late \in get_history_of(rows, m) :
            early[1].event = "ADD" /\ late[1].event = "UPDATE"

\* The scenario ran and get_history returned the UPDATE before the ADD.
C6_Witness == C6_Scenario /\ ret[1].result[1].event = "UPDATE"

\* C7: the log is write-once.  In every step: get_history leaves the table as
\* it is; add_history leaves every stored row as it is and adds exactly one
\* row when it succeeds and none when it fails; a stored row stays in the
\* table, with every field, unless the step is reset; and only reset lowers
\* the row count.
C7_WriteOnce ==
  [][ LET isGet == ret' # None
          isAdd == ret' = None /\ mut' # None /\ mut'[1].op = "add_history"
          isReset == ret' = None /\ mut' # None /\ mut'[1].op = "reset"
      IN /\ isGet => rows' = rows
         /\ isAdd =>
              /\ rows \subseteq rows'
              /\ Cardinality(rows') = Cardinality(rows) + (IF mut'[1].ok THEN 1 ELSE 0)
         /\ \A r \in rows : isReset \/ (\E q \in rows' : q.id = r.id /\ q = r)
         /\ Cardinality(rows') < Cardinality(rows) => isReset
    ]_vars

\* A row survived an append to its own memory_id and a get_history.
C7_Witness ==
  /\ AddThenGet
  /\ filter(mut[1].pre, mut[1].args.memory_id) # {}
  /\ mut[1].pre \subseteq rows
  /\ Cardinality(rows) = Cardinality(mut[1].pre) + 1

\* C11: reset is all-or-nothing.  When a reset call has ended, either it
\* succeeded and the table has no row of any memory_id, or it failed and the
\* table holds exactly the rows it held before the call; it never leaves
\* some rows deleted and others not.
C11_ResetAllOrNothing ==
  (mut # None /\ mut[1].op = "reset") =>
    \/ mut[1].ok /\ rows = {}
    \/ ~mut[1].ok /\ rows = mut[1].pre

\* A reset of a table holding rows of both memory_ids failed and every row
\* is still there.
C11_Witness ==
  /\ mut # None /\ mut[1].op = "reset" /\ ~mut[1].ok
  /\ \A m \in MemoryIds : filter(mut[1].pre, m) # {}
  /\ rows = mut[1].pre

\* ------------------------------------------------------------------------
\* Properties of SpecLen
\* ------------------------------------------------------------------------

\* C12 as the spec states it: an add_history call with a memory_id, event,
\* actor_id or role longer than its column fails with the database's error
\* and leaves the table as it was; a call within the sizes whose id is free
\* is stored, with its event string whatever that is.
C12_LengthsEnforced ==
  (mut # None /\ mut[1].op = "add_history") =>
    LET c == mut[1] IN
    /\ TooLong(c.args) => (~c.ok /\ c.error = "DataError" /\ rows = c.pre)
    /\ (~TooLong(c.args) /\ (\A r \in c.pre : r.id # c.id)) =>
         /\ c.ok
         /\ \E r \in rows : r.id = c.id /\ r.event = c.args.event
         /\ rows = c.pre \cup { r \in rows : r.id = c.id }

\* ------------------------------------------------------------------------
\* Properties of SpecConc
\* ------------------------------------------------------------------------

EntryOf(c) ==
  [ id         |-> ToString(c.id),
    memory_id  |-> c.args.memory_id,
    old_memory |-> c.args.old_memory,
    new_memory |-> c.args.new_memory,
    event      |-> c.args.event,
    created_at |-> c.args.created_at,
    updated_at |-> c.args.updated_at,
    is_deleted |-> (c.args.is_deleted = 1),
    actor_id   |-> c.args.actor_id,
    role       |-> c.args.role ]

\* C9: under every interleaving, the table holds exactly one row per
\* add_history call whose INSERT went through since the last DELETE, with
\* that call's values: k such calls, k rows, none lost or overwritten.
C9_IndependentInserts ==
  /\ Cardinality(rows) = Cardinality(committed)
  /\ \A c \in committed :
       \E r \in rows : r.id = c.id /\ history_dict(r) = EntryOf(c)
  /\ \A r \in rows : \E c \in committed : r.id = c.id

\* Two add_history calls for the same memory_id overlapped (neither has
\* returned) and both rows are stored.
C9_Witness ==
  \E p, q \in Procs :
    /\ p # q
    /\ pc[p] = "created" /\ pc[q] = "created"
    /\ frame[p][1].args.memory_id = frame[q][1].args.memory_id
    /\ frame[p][1].args # frame[q][1].args
    /\ {frame[p][1].obj, frame[q][1].obj} = rows

\* C10: when the SELECT of get_history(m) runs, the list it returns holds
\* exactly the events for m whose INSERT went through (so the event of an
\* add_history still in flight is in it, whole, or not in it), every entry
\* with all the values its call gave, and, unless a DELETE ran since the
\* get_history call began, every event for m whose add_history had
\* returned by then.
C10_ReadCommitted ==
  [][ \A p \in Procs :
        (pc[p] = "query" /\ pc'[p] = "result") =>
          LET m == frame[p][1].memory_id
              result == frame'[p][1].result
              stored == { EntryOf(c) : c \in { d \in committed : d.args.memory_id = m } }
          IN /\ Range(result) = stored
             /\ Len(result) = Cardinality(stored)
             /\ \A q \in Procs :
                  (pc[q] \in {"create", "created"} /\ frame[q][1].args.memory_id = m) =>
                    LET mine == EntryOf([id |-> frame[q][1].obj.id, args |-> frame[q][1].args])
                    IN \/ Range(result) \subseteq stored \ {mine}
                       \/ mine \in Range(result)
             /\ frame[p][1].intact =>
                  \A r \in frame[p][1].before :
                    \E i \in 1..Len(result) : result[i].id = str(r.id)
    ]_vars

\* get_history returned two entries while an add_history for the same
\* memory_id was in flight: one of an event appended before the call began
\* and the whole entry of the one in flight.
C10_Witness ==
  \E p, q \in Procs :
    /\ pc[p] = "result" /\ pc[q] = "created"
    /\ frame[p][1].memory_id = frame[q][1].args.memory_id
    /\ Len(frame[p][1].result) = 2
    /\ \E i \in 1..2 : frame[p][1].result[i] = history_dict(frame[q][1].obj)

\* get_history returned without the event of an add_history in flight whose
\* INSERT had not run.
C10_WitnessWithout ==
  \E p, q \in Procs :
    /\ pc[p] = "result" /\ pc[q] = "create"
    /\ frame[p][1].memory_id = frame[q][1].args.memory_id
    /\ Len(frame[p][1].result) = 1
    /\ frame[p][1].result[1].id # str(frame[q][1].obj.id)

\* C13: reset has no exclusivity.  A caller can always enter reset and its
\* DELETE can always run, whatever add_history calls are in flight; and the
\* row of an add_history whose INSERT went through after the DELETE of a
\* reset that ran during the call is in the table (until a later DELETE).
C13_ResetNotExclusive ==
  /\ \A p \in Procs : pc[p] = "idle" => ENABLED reset_call(p)
  /\ \A p \in Procs : pc[p] = "delete" => ENABLED objects_delete(p)
  /\ \A q \in Procs :
       (pc[q] = "created" /\ frame[q][1].reset_seen = "before_insert") =>
         frame[q][1].obj \in rows

\* A reset began while an add_history was in flight, deleted and returned;
\* the add_history then inserted its row, which is the table's only row.
\* Nothing is left of the two calls but the return of add_history, which
\* does not touch the table.
C13_Witness ==
  \E q \in Procs :
    /\ pc[q] = "created"
    /\ frame[q][1].reset_seen = "before_insert"
    /\ \A p \in Procs \ {q} : pc[p] = "idle"
    /\ rows = {frame[q][1].obj}
    /\ removed # {}

=============================================================================
